---- MODULE Spec2Model ----
(***************************************************************************)
(* A model of pkg/parser/ast_parser.py: the Python front-end of the Infrar *)
(* engine.  parse_python_code takes one source text, has the ast module    *)
(* parse it, walks the tree twice (extract_imports, extract_calls) and     *)
(* returns one envelope.                                                   *)
(*                                                                         *)
(* Representation.                                                         *)
(*  - A Python value is a record tagged with its class (field py).  A      *)
(*    number carries h, twice its value, so that 1.5 is representable and  *)
(*    1 == 1.0 == True can be decided as Python decides it.                *)
(*  - A Python str is a TLA+ string; a source text is a sequence of tokens *)
(*    whose whitespace characters (" ", "\n") are tokens of their own, so  *)
(*    that split('\n') and strip() act on it as they do on characters.     *)
(*  - A Python dict is the sequence of its entries in insertion order.     *)
(*  - An AST node is a record tagged with its class (field kind).  The     *)
(*    expression contexts and operator nodes, which have no children and   *)
(*    which none of the extractors looks at, are left out.                 *)
(***************************************************************************)
EXTENDS Integers, Sequences, FiniteSets, TLC

\* ------------------------------------------------------------ bounds
MaxArgs == 2       \* positional arguments of a generated call
MaxKeywords == 2   \* keyword arguments of a generated call
MaxChain == 3      \* attribute accesses in a generated callee
MaxDepth == 2      \* nesting depth of generated list / mapping literals
MaxStmts == 2      \* statements of a generated multi-statement document
MaxNames == 2      \* names of a generated import statement

\* ------------------------------------------------------ Python values
PyNone == [py |-> "NoneType"]
PyEllipsis == [py |-> "ellipsis"]
PyStr(s) == [py |-> "str", v |-> s]
PyBytes(s) == [py |-> "bytes", v |-> s]
PyBool(b) == [py |-> "bool", h |-> IF b THEN 2 ELSE 0]
PyInt(n) == [py |-> "int", h |-> 2 * n]
PyFloat(halves) == [py |-> "float", h |-> halves]
PyComplex(n) == [py |-> "complex", h |-> 0, im |-> 2 * n]
PyList(items) == [py |-> "list", items |-> items]
PyDict(entries) == [py |-> "dict", entries |-> entries]

\* isinstance(value, cls), with bool a subclass of int.
IsInstance(value, cls) ==
    \/ value.py = cls
    \/ cls = "int" /\ value.py = "bool"

IsNumber(value) == value.py \in {"bool", "int", "float", "complex"}

\* a == b on the values a dict can hold as keys: numbers compare by value
\* across bool, int, float and complex, everything else within its class.
PyEq(a, b) ==
    IF IsNumber(a) /\ IsNumber(b)
    THEN /\ a.h = b.h
         /\ (IF a.py = "complex" THEN a.im ELSE 0) = (IF b.py = "complex" THEN b.im ELSE 0)
    ELSE a = b

\* hash(value) raises TypeError for a list and for a dict.
Unhashable(value) == value.py \in {"list", "dict"}

\* str(n) of a numeric literal's value.
NumStr(value) ==
    CASE value.py = "int" -> ToString(value.h \div 2)
      [] value.py = "float" ->
            ToString(value.h \div 2) \o (IF value.h % 2 = 1 THEN ".5" ELSE ".0")
      [] value.py = "complex" -> ToString(value.im \div 2) \o "j"
      [] OTHER -> IF value.h = 2 THEN "True" ELSE "False"

\* d[key] = val on a dict: the first equal key keeps its place and its key
\* object, and takes the new value; a new key is appended.
RECURSIVE DictSet(_, _, _)
DictSet(entries, key, val) ==
    IF entries = <<>> THEN <<[key |-> key, val |-> val]>>
    ELSE IF PyEq(Head(entries).key, key)
         THEN <<[key |-> Head(entries).key, val |-> val]>> \o Tail(entries)
         ELSE <<Head(entries)>> \o DictSet(Tail(entries), key, val)

HasKey(entries, key) == \E i \in 1..Len(entries) : PyEq(entries[i].key, key)

DictGet(entries, key) ==
    entries[CHOOSE i \in 1..Len(entries) : PyEq(entries[i].key, key)].val

\* --------------------------------------------------------- AST nodes
\* A Python None where a node may stand (the key of a ** entry of a Dict).
NoNode == [kind |-> "None"]

Constant(value) == [kind |-> "Constant", value |-> value]
Str(s) == [kind |-> "Str", s |-> s]
Num(n) == [kind |-> "Num", n |-> n]
NameConstant(value) == [kind |-> "NameConstant", value |-> value]
Name(id) == [kind |-> "Name", id |-> id]
List(elts) == [kind |-> "List", elts |-> elts]
Dict(keys, values) == [kind |-> "Dict", keys |-> keys, values |-> values]
Attribute(value, attr) == [kind |-> "Attribute", value |-> value, attr |-> attr]
Subscript(value, slice) == [kind |-> "Subscript", value |-> value, slice |-> slice]
Starred(value) == [kind |-> "Starred", value |-> value]
UnaryOp(operand) == [kind |-> "UnaryOp", operand |-> operand]
Keyword(arg, value) == [kind |-> "keyword", arg |-> arg, value |-> value]
Call(func, args, keywords) ==
    [kind |-> "Call", func |-> func, args |-> args, keywords |-> keywords]
Alias(name, asname) == [kind |-> "alias", name |-> name, asname |-> asname]
Import(names) == [kind |-> "Import", names |-> names]
ImportFrom(module, names, level) ==
    [kind |-> "ImportFrom", module |-> module, names |-> names, level |-> level]
Expr(value) == [kind |-> "Expr", value |-> value]
If(test, body) == [kind |-> "If", test |-> test, body |-> body]
Module(body) == [kind |-> "Module", body |-> body]


\* ------------------------------------------------- exceptions, results
\* What a call of a function that may raise ends with.
Returned(val) == [raised |-> FALSE, val |-> val]
Raised(exc) == [raised |-> TRUE, exc |-> exc]

TypeError(msg) == [cls |-> "TypeError", msg |-> msg]

\* The classes `except SyntaxError` catches: SyntaxError and its subclasses.
IsSyntaxError(exc) == exc.cls \in {"SyntaxError", "IndentationError", "TabError"}

\* The classes `except Exception` catches: everything the front-end and the
\* extractors raise but the BaseException-only classes.
IsException(exc) == exc.cls \notin {"KeyboardInterrupt", "SystemExit", "GeneratorExit"}

\* str(e): a SyntaxError appends its file name and line to its message.
ExcStr(exc) ==
    IF ~IsSyntaxError(exc) THEN exc.msg
    ELSE CASE exc.filename # PyNone /\ exc.lineno # PyNone ->
                exc.msg \o " (" \o exc.filename.v \o ", line "
                        \o ToString(exc.lineno.h \div 2) \o ")"
           [] exc.filename # PyNone /\ exc.lineno = PyNone ->
                exc.msg \o " (" \o exc.filename.v \o ")"
           [] exc.filename = PyNone /\ exc.lineno # PyNone ->
                exc.msg \o " (line " \o ToString(exc.lineno.h \div 2) \o ")"
           [] OTHER -> exc.msg

\* bool(x) of an Optional[str].
Truthy(x) == x # PyNone /\ x.v # ""

\* ------------------------------------------------------ get_value_type
\* get_value_type with the numeric test ahead of the boolean one.
get_value_type_NumberFirst(value) ==
    IF value = PyNone THEN "none"
    ELSE IF IsInstance(value, "int") \/ IsInstance(value, "float") THEN "number"
    ELSE IF IsInstance(value, "bool") THEN "bool"
    ELSE IF IsInstance(value, "str") THEN "string"
    ELSE "unknown"

\* get_value_type: None, then bool, then str, then int and float.
get_value_type(value) ==
    IF value = PyNone THEN "none"
    ELSE IF IsInstance(value, "bool") THEN "bool"
    ELSE IF IsInstance(value, "str") THEN "string"
    ELSE IF IsInstance(value, "int") \/ IsInstance(value, "float") THEN "number"
    ELSE "unknown"

\* -------------------------------------------------------- extract_value
TypedValue(type, value) == [type |-> type, value |-> value]

RECURSIVE extract_value(_), ListComp(_, _), DictComp(_, _, _)

\* [extract_value(elt) for elt in node.elts]
ListComp(elts, items) ==
    IF elts = <<>> THEN Returned(items)
    ELSE LET r == extract_value(Head(elts))
         IN  IF r.raised THEN r ELSE ListComp(Tail(elts), Append(items, r.val))

\* {extract_value(k)["value"]: extract_value(v) for k, v in zip(keys, values)}:
\* the key expression, then the value expression, then the store, which
\* hashes the key.
DictComp(keys, values, entries) ==
    IF keys = <<>> \/ values = <<>> THEN Returned(entries)
    ELSE LET k == extract_value(Head(keys))
         IN  IF k.raised THEN k
             ELSE LET v == extract_value(Head(values))
                  IN  IF v.raised THEN v
                      ELSE IF Unhashable(k.val.value)
                           THEN Raised(TypeError("unhashable type: '" \o k.val.value.py \o "'"))
                           ELSE DictComp(Tail(keys), Tail(values),
                                         DictSet(entries, k.val.value, v.val))

extract_value(node) ==
    CASE node.kind = "Constant" ->
            Returned(TypedValue(get_value_type(node.value), node.value))
      [] node.kind = "Str" -> Returned(TypedValue("string", PyStr(node.s)))
      [] node.kind = "Num" -> Returned(TypedValue("number", PyStr(NumStr(node.n))))
      [] node.kind = "NameConstant" ->
            Returned(TypedValue(get_value_type(node.value), node.value))
      [] node.kind = "Name" -> Returned(TypedValue("variable", PyStr(node.id)))
      [] node.kind = "List" ->
            LET r == ListComp(node.elts, <<>>)
            IN  IF r.raised THEN r ELSE Returned(TypedValue("list", PyList(r.val)))
      [] node.kind = "Dict" ->
            LET r == DictComp(node.keys, node.values, <<>>)
            IN  IF r.raised THEN r ELSE Returned(TypedValue("dict", PyDict(r.val)))
      [] OTHER -> Returned(TypedValue("unknown", PyNone))

\* ------------------------------------------------------------ ast.walk
\* ast.iter_child_nodes(node): the node's fields in their declared order,
\* each AST node in them (a None among a Dict's keys is no node).
IsNode(x) == x # NoNode

\* iter_child_nodes without the keywords of a Call.
Children_NoKeywords(node) ==
    CASE node.kind = "Module" -> node.body
      [] node.kind = "Expr" -> <<node.value>>
      [] node.kind = "If" -> <<node.test>> \o node.body
      [] node.kind \in {"Import", "ImportFrom"} -> node.names
      [] node.kind = "Call" -> <<node.func>> \o node.args
      [] node.kind \in {"keyword", "Attribute", "Starred"} -> <<node.value>>
      [] node.kind = "Subscript" -> <<node.value, node.slice>>
      [] node.kind = "UnaryOp" -> <<node.operand>>
      [] node.kind = "List" -> node.elts
      [] node.kind = "Dict" -> SelectSeq(node.keys, IsNode) \o node.values
      [] OTHER -> <<>>

\* iter_child_nodes(node).
Children(node) ==
    CASE node.kind = "Module" -> node.body
      [] node.kind = "Expr" -> <<node.value>>
      [] node.kind = "If" -> <<node.test>> \o node.body
      [] node.kind \in {"Import", "ImportFrom"} -> node.names
      [] node.kind = "Call" -> <<node.func>> \o node.args \o node.keywords
      [] node.kind \in {"keyword", "Attribute", "Starred"} -> <<node.value>>
      [] node.kind = "Subscript" -> <<node.value, node.slice>>
      [] node.kind = "UnaryOp" -> <<node.operand>>
      [] node.kind = "List" -> node.elts
      [] node.kind = "Dict" -> SelectSeq(node.keys, IsNode) \o node.values
      [] OTHER -> <<>>

\* The walk with the children put in front: depth first.
WalkRest_Stack(todo) == Children(Head(todo)) \o Tail(todo)

\* One step of `for node in ast.walk(tree)`: todo.popleft(), then
\* todo.extend(iter_child_nodes(node)).
WalkRest(todo) == Tail(todo) \o Children(Head(todo))

\* ------------------------------------------------------ extract_imports
\* The loop body with a from-import handled like a plain import, name by name.
ImportRecords_PerName(node) ==
    IF node.kind \in {"Import", "ImportFrom"}
    THEN [i \in 1..Len(node.names) |->
            [module |-> node.names[i].name,
             names |-> <<node.names[i].name>>,
             alias |-> IF Truthy(node.names[i].asname) THEN node.names[i].asname.v ELSE "",
             lineno |-> node.lineno]]
    ELSE <<>>

\* What one iteration of the loop appends to imports.
ImportRecords(node) ==
    CASE node.kind = "Import" ->
            [i \in 1..Len(node.names) |->
                [module |-> node.names[i].name,
                 names |-> <<node.names[i].name>>,
                 alias |-> IF Truthy(node.names[i].asname)
                           THEN node.names[i].asname.v ELSE "",
                 lineno |-> node.lineno]]
      [] node.kind = "ImportFrom" ->
            <<[module |-> IF Truthy(node.module) THEN node.module.v ELSE "",
               names |-> [i \in 1..Len(node.names) |-> node.names[i].name],
               alias |-> "",
               lineno |-> node.lineno]>>
      [] OTHER -> <<>>

\* -------------------------------------------------------- extract_calls
\* ".".join(parts)
RECURSIVE Join(_)
Join(parts) ==
    IF parts = <<>> THEN ""
    ELSE IF Len(parts) = 1 THEN parts[1]
    ELSE parts[1] \o "." \o Join(Tail(parts))

\* while isinstance(current, ast.Attribute):
\*     parts.insert(0, current.attr); current = current.value
RECURSIVE AttributeLoop(_, _)
AttributeLoop(current, parts) ==
    IF current.kind = "Attribute"
    THEN AttributeLoop(current.value, <<current.attr>> \o parts)
    ELSE [current |-> current, parts |-> parts]

\* The module path with parts.append in place of parts.insert(0, ...).
CalleeModule_LeafFirst(func) ==
    LET l == AttributeLoop(func.value, <<>>)
        rev == [i \in 1..Len(l.parts) |-> l.parts[Len(l.parts) + 1 - i]]
    IN  IF l.current.kind = "Name"
        THEN PyStr(Join(rev \o <<l.current.id>>))
        ELSE PyNone

\* call_info["module"] of an attribute callee.
CalleeModule(func) ==
    LET l == AttributeLoop(func.value, <<>>)
    IN  IF l.current.kind = "Name"
        THEN PyStr(Join(<<l.current.id>> \o l.parts))
        ELSE PyNone

\* for i, arg in enumerate(node.args):
\*     call_info["arguments"][f"arg_{i}"] = extract_value(arg)
RECURSIVE PositionalLoop(_, _, _)
PositionalLoop(args, i, arguments) ==
    IF args = <<>> THEN Returned(arguments)
    ELSE LET r == extract_value(Head(args))
         IN  IF r.raised THEN r
             ELSE PositionalLoop(Tail(args), i + 1,
                                 DictSet(arguments, PyStr("arg_" \o ToString(i)), r.val))

\* for keyword in node.keywords:
\*     call_info["arguments"][keyword.arg] = extract_value(keyword.value)
RECURSIVE KeywordLoop(_, _)
KeywordLoop(keywords, arguments) ==
    IF keywords = <<>> THEN Returned(arguments)
    ELSE LET r == extract_value(Head(keywords).value)
         IN  IF r.raised THEN r
             ELSE KeywordLoop(Tail(keywords),
                              DictSet(arguments, Head(keywords).arg, r.val))

Arguments(node) ==
    LET p == PositionalLoop(node.args, 0, <<>>)
    IN  IF p.raised THEN p ELSE KeywordLoop(node.keywords, p.val)

\* The characters str.strip() removes.
Whitespace == {" ", "\t", "\n", "\r"}

\* source_code.split('\n'): the stretches of the text between its newlines.
Split(text) ==
    LET breaks == {i \in 1..Len(text) : text[i] = "\n"}
        BreakNo(k) == IF k = 0 THEN 0
                      ELSE IF k > Cardinality(breaks) THEN Len(text) + 1
                      ELSE CHOOSE i \in breaks : Cardinality({j \in breaks : j < i}) = k - 1
    IN  [k \in 1..(Cardinality(breaks) + 1) |->
            SubSeq(text, BreakNo(k - 1) + 1, BreakNo(k) - 1)]

RECURSIVE LStrip(_)
LStrip(line) ==
    IF line # <<>> /\ Head(line) \in Whitespace THEN LStrip(Tail(line)) ELSE line

RECURSIVE RStrip(_)
RStrip(line) ==
    IF line # <<>> /\ line[Len(line)] \in Whitespace
    THEN RStrip(SubSeq(line, 1, Len(line) - 1)) ELSE line

Strip(line) == RStrip(LStrip(line))

\* The body of the loop for one Call node: the record it appends, or the
\* exception extract_value raises out of it.
CallInfo(node, source_lines) ==
    LET function == CASE node.func.kind = "Name" -> PyStr(node.func.id)
                      [] node.func.kind = "Attribute" -> PyStr(node.func.attr)
                      [] OTHER -> PyNone
        module == IF node.func.kind = "Attribute" THEN CalleeModule(node.func) ELSE PyNone
        a == Arguments(node)
        info == [lineno |-> node.lineno, col_offset |-> node.col_offset,
                 function |-> function, module |-> module, arguments |-> a.val]
    IN  IF a.raised THEN a
        ELSE IF 0 <= node.lineno - 1 /\ node.lineno - 1 < Len(source_lines)
             THEN Returned([lineno |-> info.lineno, col_offset |-> info.col_offset,
                            function |-> info.function, module |-> info.module,
                            arguments |-> info.arguments,
                            source_code |-> Strip(source_lines[node.lineno])])
             ELSE Returned(info)


\* ----------------------------------------------------- result envelopes
SuccessEnvelope(imports, calls, source_code) ==
    [language |-> "python", imports |-> imports, calls |-> calls,
     source_code |-> source_code, success |-> TRUE, error |-> PyNone]

\* The failure envelope with imports and calls present but empty.
ExceptionEnvelope_Empty(e) ==
    [imports |-> <<>>, calls |-> <<>>, success |-> FALSE,
     error |-> [type |-> e.cls, message |-> ExcStr(e)]]

\* What `except Exception` returns.
ExceptionEnvelope(e) ==
    [success |-> FALSE, error |-> [type |-> e.cls, message |-> ExcStr(e)]]

\* A syntax fault handled by the general handler.
SyntaxErrorEnvelope_AsException(e) == ExceptionEnvelope(e)

\* What `except SyntaxError` returns.
SyntaxErrorEnvelope(e) ==
    [success |-> FALSE,
     error |-> [type |-> "SyntaxError", message |-> ExcStr(e),
                lineno |-> e.lineno, offset |-> e.offset, text |-> e.text]]

\* ------------------------------------------- the front-end (ast.parse)
\* The source text of a node, and the line and column ast.parse gives each
\* node of the tree it builds from that text.
Repr(value) ==
    CASE value.py = "NoneType" -> "None"
      [] value.py = "ellipsis" -> "..."
      [] value.py = "str" -> "'" \o value.v \o "'"
      [] value.py = "bytes" -> "b'" \o value.v \o "'"
      [] OTHER -> NumStr(value)

RECURSIVE Width(_)
Width(tokens) == IF tokens = <<>> THEN 0 ELSE Len(Head(tokens)) + Width(Tail(tokens))

RECURSIVE Unparse(_), UnparseList(_), UnparseEntries(_, _)

UnparseList(nodes) ==
    IF nodes = <<>> THEN <<>>
    ELSE IF Len(nodes) = 1 THEN Unparse(nodes[1])
    ELSE Unparse(nodes[1]) \o <<",", " ">> \o UnparseList(Tail(nodes))

UnparseEntries(keys, values) ==
    IF keys = <<>> THEN <<>>
    ELSE (IF keys[1] = NoNode THEN <<"**">> ELSE Unparse(keys[1]) \o <<":", " ">>)
         \o Unparse(values[1])
         \o (IF Len(keys) = 1 THEN <<>> ELSE <<",", " ">>)
         \o UnparseEntries(Tail(keys), Tail(values))

Dots(level) == IF level = 0 THEN <<>> ELSE <<".">>

Unparse(node) ==
    CASE node.kind \in {"Constant", "NameConstant"} -> <<Repr(node.value)>>
      [] node.kind = "Str" -> <<Repr(PyStr(node.s))>>
      [] node.kind = "Num" -> <<NumStr(node.n)>>
      [] node.kind = "Name" -> <<node.id>>
      [] node.kind = "List" -> <<"[">> \o UnparseList(node.elts) \o <<"]">>
      [] node.kind = "Dict" -> <<"{">> \o UnparseEntries(node.keys, node.values) \o <<"}">>
      [] node.kind = "Attribute" -> Unparse(node.value) \o <<".", node.attr>>
      [] node.kind = "Subscript" ->
            Unparse(node.value) \o <<"[">> \o Unparse(node.slice) \o <<"]">>
      [] node.kind = "Starred" -> <<"*">> \o Unparse(node.value)
      [] node.kind = "UnaryOp" -> <<"-">> \o Unparse(node.operand)
      [] node.kind = "keyword" ->
            (IF node.arg = PyNone THEN <<"**">> ELSE <<node.arg.v, "=">>)
            \o Unparse(node.value)
      [] node.kind = "Call" ->
            Unparse(node.func) \o <<"(">> \o UnparseList(node.args \o node.keywords)
            \o <<")">>
      [] node.kind = "alias" ->
            <<node.name>>
            \o (IF node.asname = PyNone THEN <<>> ELSE <<" ", "as", " ", node.asname.v>>)
      [] node.kind = "Import" -> <<"import", " ">> \o UnparseList(node.names)
      [] node.kind = "ImportFrom" ->
            <<"from", " ">> \o Dots(node.level)
            \o (IF node.module = PyNone THEN <<>> ELSE <<node.module.v>>)
            \o <<" ", "import", " ">> \o UnparseList(node.names)
      [] node.kind = "Expr" -> Unparse(node.value)
      [] node.kind = "If" -> <<"if", " ">> \o Unparse(node.test) \o <<":">>

RECURSIVE Indent(_)
Indent(n) == IF n = 0 THEN <<>> ELSE <<" ">> \o Indent(n - 1)

\* The lines of a statement written at an indentation: a compound statement
\* has its body on the lines after its header, four columns further in.
RECURSIVE StmtLines(_, _), BodyLines(_, _)
BodyLines(body, indent) ==
    IF body = <<>> THEN <<>>
    ELSE StmtLines(Head(body), indent) \o BodyLines(Tail(body), indent)

StmtLines(stmt, indent) ==
    <<Indent(indent) \o Unparse(stmt)>>
    \o (IF stmt.kind = "If" THEN BodyLines(stmt.body, indent + 4) ELSE <<>>)

RECURSIVE JoinLines(_)
JoinLines(lines) ==
    IF lines = <<>> THEN <<>> ELSE Head(lines) \o <<"\n">> \o JoinLines(Tail(lines))

At(node, line, col) == [lineno |-> line, col_offset |-> col] @@ node

RECURSIVE Place(_, _, _), PlaceList(_, _, _), PlaceKeys(_, _, _, _),
          PlaceValues(_, _, _, _), PlaceBody(_, _, _)

\* Comma-separated nodes from a column on.
PlaceList(nodes, line, col) ==
    IF nodes = <<>> THEN <<>>
    ELSE <<Place(Head(nodes), line, col)>>
         \o PlaceList(Tail(nodes), line, col + Width(Unparse(Head(nodes))) + 2)

EntryWidth(key, value) ==
    (IF key = NoNode THEN 2 ELSE Width(Unparse(key)) + 2) + Width(Unparse(value))

PlaceKeys(keys, values, line, col) ==
    IF keys = <<>> THEN <<>>
    ELSE <<IF keys[1] = NoNode THEN NoNode ELSE Place(keys[1], line, col)>>
         \o PlaceKeys(Tail(keys), Tail(values), line,
                      col + EntryWidth(keys[1], values[1]) + 2)

PlaceValues(keys, values, line, col) ==
    IF keys = <<>> THEN <<>>
    ELSE <<Place(values[1], line,
                 col + EntryWidth(keys[1], values[1]) - Width(Unparse(values[1])))>>
         \o PlaceValues(Tail(keys), Tail(values), line,
                        col + EntryWidth(keys[1], values[1]) + 2)

\* Statements from a line on, each after the lines of the one before.
PlaceBody(body, line, indent) ==
    IF body = <<>> THEN <<>>
    ELSE <<Place(Head(body), line, indent)>>
         \o PlaceBody(Tail(body), line + Len(StmtLines(Head(body), indent)), indent)

Place(node, line, col) ==
    CASE node.kind = "List" ->
            At([node EXCEPT !.elts = PlaceList(node.elts, line, col + 1)], line, col)
      [] node.kind = "Dict" ->
            At([node EXCEPT !.keys = PlaceKeys(node.keys, node.values, line, col + 1),
                            !.values = PlaceValues(node.keys, node.values, line, col + 1)],
               line, col)
      [] node.kind = "Attribute" ->
            At([node EXCEPT !.value = Place(node.value, line, col)], line, col)
      [] node.kind = "Subscript" ->
            At([node EXCEPT !.value = Place(node.value, line, col),
                            !.slice = Place(node.slice, line,
                                            col + Width(Unparse(node.value)) + 1)],
               line, col)
      [] node.kind = "Starred" ->
            At([node EXCEPT !.value = Place(node.value, line, col + 1)], line, col)
      [] node.kind = "UnaryOp" ->
            At([node EXCEPT !.operand = Place(node.operand, line, col + 1)], line, col)
      [] node.kind = "keyword" ->
            At([node EXCEPT !.value =
                    Place(node.value, line,
                          col + (IF node.arg = PyNone THEN 2 ELSE Len(node.arg.v) + 1))],
               line, col)
      [] node.kind = "Call" ->
            LET placed == PlaceList(node.args \o node.keywords, line,
                                    col + Width(Unparse(node.func)) + 1)
            IN  At([node EXCEPT !.func = Place(node.func, line, col),
                                !.args = SubSeq(placed, 1, Len(node.args)),
                                !.keywords = SubSeq(placed, Len(node.args) + 1, Len(placed))],
                   line, col)
      [] node.kind = "Import" ->
            At([node EXCEPT !.names = PlaceList(node.names, line, col + 7)], line, col)
      [] node.kind = "ImportFrom" ->
            At([node EXCEPT !.names =
                    PlaceList(node.names, line,
                              col + Width(Unparse(node)) - Width(UnparseList(node.names)))],
               line, col)
      [] node.kind = "Expr" ->
            At([node EXCEPT !.value = Place(node.value, line, col)], line, col)
      [] node.kind = "If" ->
            At([node EXCEPT !.test = Place(node.test, line, col + 3),
                            !.body = PlaceBody(node.body, line + 1, col + 4)],
               line, col)
      [] OTHER -> At(node, line, col)

\* A text the front-end parses, with the tree it builds from it.
Parsed(body) ==
    [source_code |-> JoinLines(BodyLines(body, 0)),
     parsed |-> Returned(Module(PlaceBody(body, 1, 0)))]

\* A text the front-end raises on, with the exception.
Rejected(source_code, exc) == [source_code |-> source_code, parsed |-> Raised(exc)]

SyntaxError(cls, msg, lineno, offset, text) ==
    [cls |-> cls, msg |-> msg, filename |-> IF lineno = PyNone THEN PyNone ELSE PyStr("<unknown>"),
     lineno |-> lineno, offset |-> offset, text |-> text]

\* ast.parse(source_code) on a document.
ast_parse(doc) == doc.parsed


\* ------------------------------------------------------- the documents
SeqsFromTo(S, lo, hi) == UNION {[1..k -> S] : k \in lo..hi}

PyText(tokens) == [py |-> "str", t |-> tokens]

\* Literal payloads and leaf expressions, the pre-3.8 node classes among them.
Leaves ==
    {Constant(PyNone), Constant(PyBool(TRUE)), Constant(PyBool(FALSE)),
     Constant(PyStr("b")), Constant(PyInt(1)), Constant(PyFloat(3)),
     Constant(PyComplex(1)), Constant(PyBytes("x")), Constant(PyEllipsis),
     Name("x"), UnaryOp(Constant(PyInt(1))), Call(Name("g"), <<>>, <<>>),
     Str("b"), Num(PyInt(1)), Num(PyFloat(3)), NameConstant(PyBool(TRUE))}

Core == {Constant(PyBool(TRUE)), Constant(PyInt(1)), Name("x"), Call(Name("g"), <<>>, <<>>)}

\* A literal around an expression: as a list element, as a mapping value
\* (under a string key, under a ** entry, under a key equal to an earlier
\* one) and as a mapping key.
Wrap(S) ==
    {List(<<e>>) : e \in S}
    \cup {List(<<Constant(PyBool(FALSE)), e>>) : e \in S}
    \cup {Dict(<<Constant(PyStr("k"))>>, <<e>>) : e \in S}
    \cup {Dict(<<NoNode>>, <<e>>) : e \in S}
    \cup {Dict(<<e>>, <<Constant(PyInt(2))>>) : e \in S}
    \cup {Dict(<<Constant(PyInt(1)), e>>, <<Constant(PyStr("b")), Constant(PyBool(TRUE))>>) : e \in S}

RECURSIVE Nested(_)
Nested(depth) ==
    IF depth = 0 THEN Core ELSE Nested(depth - 1) \cup Wrap(Nested(depth - 1))

Literals == Leaves \cup Wrap(Leaves) \cup Nested(MaxDepth)

ValueDocs ==
    {Parsed(<<Expr(Call(Name("f"), <<e>>, <<>>))>>) : e \in Literals}
    \cup {Parsed(<<Expr(Call(Name("f"), <<>>, <<Keyword(PyStr("k"), e)>>))>>) :
            e \in Leaves \cup Wrap(Core)}

\* Calls by their arguments: keyword names that look like positional keys,
\* a ** argument, repeated names.
Positionals == {Constant(PyInt(1)), Name("x")}

Keywords ==
    {Keyword(PyStr(n), Constant(PyInt(2))) : n \in {"bucket", "arg_0", "arg_1"}}
    \cup {Keyword(PyNone, Name("kw"))}

ArgumentDocs ==
    {Parsed(<<Expr(Call(Name("upload"), a, k))>>) :
        a \in SeqsFromTo(Positionals, 0, MaxArgs), k \in SeqsFromTo(Keywords, 0, MaxKeywords)}

\* Calls by their callee: attribute chains over an identifier, over a call,
\* over a subscript.
RECURSIVE Chain(_, _)
Chain(root, attrs) ==
    IF attrs = <<>> THEN root
    ELSE Chain(Attribute(root, Head(attrs)), Tail(attrs))

Roots == {Name("a"), Call(Name("g"), <<>>, <<>>), Subscript(Name("x"), Constant(PyInt(0)))}

CalleeDocs ==
    {Parsed(<<Expr(Call(Chain(r, attrs), <<Name("x")>>, <<>>))>>) :
        r \in Roots, attrs \in SeqsFromTo({"b", "c"}, 0, MaxChain)}

\* Import statements.
ImportDocs ==
    {Parsed(<<Import(names)>>) :
        names \in SeqsFromTo({Alias(n, a) : n \in {"os", "a.b"}, a \in {PyNone, PyStr("s")}},
                             1, MaxNames)}
    \cup {Parsed(<<ImportFrom(m, names, IF m = PyNone THEN 1 ELSE 0)>>) :
            m \in {PyNone, PyStr("pkg.storage")},
            names \in SeqsFromTo({Alias(n, a) : n \in {"upload", "download"},
                                                a \in {PyNone, PyStr("u")}},
                                 1, MaxNames)}

\* Several statements: calls nested in arguments, in callees and in
\* literals, a call whose argument has a list as a mapping key, imports,
\* and both in the body of a compound statement.
G(args) == Call(Name("g"), args, <<>>)

Statements ==
    {Expr(Call(Name("f"), <<G(<<Constant(PyInt(1))>>)>>, <<>>)),
     Expr(Call(Name("h"), <<>>, <<>>)),
     Expr(Call(Name("f"), <<Starred(List(<<G(<<>>)>>))>>, <<Keyword(PyStr("k"), G(<<Name("x")>>))>>)),
     Expr(Call(G(<<>>), <<Name("x")>>, <<>>)),
     Expr(Call(Attribute(Name("a"), "f"),
               <<List(<<G(<<>>)>>), Dict(<<Call(Name("h"), <<>>, <<>>)>>, <<G(<<>>)>>)>>, <<>>)),
     Expr(Call(Name("f"), <<Dict(<<List(<<Name("x")>>)>>, <<Constant(PyInt(2))>>)>>, <<>>)),
     Import(<<Alias("os", PyNone)>>),
     ImportFrom(PyStr("pkg.storage"), <<Alias("upload", PyStr("u")), Alias("download", PyNone)>>, 0),
     If(Call(Name("h"), <<>>, <<>>),
        <<Import(<<Alias("sys", PyStr("s"))>>),
          If(Name("x"), <<Expr(Call(Name("f"), <<G(<<Constant(PyInt(1))>>)>>, <<>>))>>)>>)}

StatementDocs == {Parsed(body) : body \in SeqsFromTo(Statements, 1, MaxStmts)}

\* Texts the front-end raises on: syntax faults with and without a
\* location, and faults of other classes ("\\x00" stands for a NUL character,
\* "..." for nesting beyond what the front-end's stack or memory takes).
RejectedDocs ==
    {Rejected(<<"f", "(", "\n">>,
              SyntaxError("SyntaxError", "'(' was never closed", PyInt(1), PyInt(2),
                          PyText(<<"f", "(", "\n">>))),
     Rejected(<<"f", "(", "1", ")", "\n", " ", " ", "g", "(", "2", ")">>,
              SyntaxError("IndentationError", "unexpected indent", PyInt(2), PyInt(2),
                          PyText(<<" ", " ", "g", "(", "2", ")", "\n">>))),
     Rejected(<<"h", "(", ")", "\n", "x", " ", "=", " ", "(">>,
              SyntaxError("SyntaxError", "'(' was never closed", PyInt(2), PyInt(5),
                          PyText(<<"x", " ", "=", " ", "(", "\n">>))),
     Rejected(<<"\\x00">>,
              SyntaxError("SyntaxError", "source code string cannot contain null bytes",
                          PyNone, PyNone, PyNone)),
     Rejected(<<"\\x00">>,
              [cls |-> "ValueError", msg |-> "source code string cannot contain null bytes"]),
     Rejected(<<"f", "(", "f", "(", "f", "(", "...", ")", ")", ")">>,
              [cls |-> "RecursionError", msg |-> "maximum recursion depth exceeded"]),
     Rejected(<<"f", "(", "f", "(", "f", "(", "...", ")", ")", ")">>,
              [cls |-> "MemoryError", msg |-> ""])}

Documents ==
    ValueDocs \cup ArgumentDocs \cup CalleeDocs \cup ImportDocs \cup StatementDocs
    \cup RejectedDocs

\* ------------------------------------------------------------ the state
VARIABLES
    doc,            \* the input: the text, and what the front-end makes of it
    pc,             \* where parse_python_code is
    tree,           \* tree = ast.parse(source_code)
    source_lines,   \* source_lines = source_code.split('\n')
    todo,           \* the deque of the running ast.walk
    node,           \* the loop variable of the running extractor
    imports,        \* extract_imports' list
    calls,          \* extract_calls' list
    exc,            \* the exception being handled
    result          \* what parse_python_code returned

vars == <<doc, pc, tree, source_lines, todo, node, imports, calls, exc, result>>

NoException == [cls |-> "None"]
NoResult == [returned |-> FALSE]

Init ==
    /\ doc \in Documents
    /\ pc = "start"
    /\ tree = NoNode
    /\ source_lines = <<>>
    /\ todo = <<>>
    /\ node = NoNode
    /\ imports = <<>>
    /\ calls = <<>>
    /\ exc = NoException
    /\ result = NoResult

\* tree = ast.parse(source_code); source_lines = source_code.split('\n');
\* then the call of extract_imports.
Parse ==
    /\ pc = "start"
    /\ LET r == ast_parse(doc)
       IN  IF r.raised
           THEN /\ exc' = r.exc
                /\ pc' = "except"
                /\ UNCHANGED <<tree, source_lines, todo>>
           ELSE /\ tree' = r.val
                /\ source_lines' = Split(doc.source_code)
                /\ todo' = <<r.val>>
                /\ pc' = "imports"
                /\ exc' = exc
    /\ UNCHANGED <<doc, node, imports, calls, result>>

\* One iteration of extract_imports' loop.
ImportsLoop ==
    /\ pc = "imports"
    /\ todo # <<>>
    /\ node' = Head(todo)
    /\ todo' = WalkRest(todo)
    /\ imports' = imports \o ImportRecords(Head(todo))
    /\ UNCHANGED <<doc, pc, tree, source_lines, calls, exc, result>>

\* extract_imports returns; the call of extract_calls.
ImportsReturn ==
    /\ pc = "imports"
    /\ todo = <<>>
    /\ pc' = "calls"
    /\ todo' = <<tree>>
    /\ node' = NoNode
    /\ UNCHANGED <<doc, tree, source_lines, imports, calls, exc, result>>

\* One iteration of extract_calls' loop; an exception of extract_value
\* leaves the loop and the function.
CallsLoop ==
    /\ pc = "calls"
    /\ todo # <<>>
    /\ node' = Head(todo)
    /\ todo' = WalkRest(todo)
    /\ IF Head(todo).kind = "Call"
       THEN LET r == CallInfo(Head(todo), source_lines)
            IN  IF r.raised
                THEN /\ exc' = r.exc
                     /\ pc' = "except"
                     /\ calls' = calls
                ELSE /\ calls' = Append(calls, r.val)
                     /\ UNCHANGED <<pc, exc>>
       ELSE UNCHANGED <<pc, exc, calls>>
    /\ UNCHANGED <<doc, tree, source_lines, imports, result>>

\* extract_calls returns; the result is built and returned.
Return ==
    /\ pc = "calls"
    /\ todo = <<>>
    /\ result' = SuccessEnvelope(imports, calls, doc.source_code)
    /\ pc' = "done"
    /\ UNCHANGED <<doc, tree, source_lines, todo, node, imports, calls, exc>>

\* except SyntaxError as e
ExceptSyntaxError ==
    /\ pc = "except"
    /\ IsSyntaxError(exc)
    /\ result' = SyntaxErrorEnvelope(exc)
    /\ pc' = "done"
    /\ UNCHANGED <<doc, tree, source_lines, todo, node, imports, calls, exc>>

\* except Exception as e
ExceptException ==
    /\ pc = "except"
    /\ ~IsSyntaxError(exc)
    /\ IsException(exc)
    /\ result' = ExceptionEnvelope(exc)
    /\ pc' = "done"
    /\ UNCHANGED <<doc, tree, source_lines, todo, node, imports, calls, exc>>

Next ==
    \/ Parse
    \/ ImportsLoop
    \/ ImportsReturn
    \/ CallsLoop
    \/ Return
    \/ ExceptSyntaxError
    \/ ExceptException

Spec == Init /\ [][Next]_vars

\* ================================================================ claims
\* The parts of a node as the grammar has them: its sub-expressions and
\* sub-statements, a keyword argument standing for its value.
KeywordValues(keywords) == [i \in 1..Len(keywords) |-> keywords[i].value]

Parts(n) ==
    CASE n.kind = "Module" -> n.body
      [] n.kind = "If" -> <<n.test>> \o n.body
      [] n.kind = "Expr" -> <<n.value>>
      [] n.kind = "Call" -> <<n.func>> \o n.args \o KeywordValues(n.keywords)
      [] n.kind \in {"Attribute", "Starred"} -> <<n.value>>
      [] n.kind = "Subscript" -> <<n.value, n.slice>>
      [] n.kind = "UnaryOp" -> <<n.operand>>
      [] n.kind = "List" -> n.elts
      [] n.kind = "Dict" -> SelectSeq(n.keys, LAMBDA k : k.kind # "None") \o n.values
      [] OTHER -> <<>>

\* The call expressions in a node, itself included.
RECURSIVE CountCalls(_), CountCallsIn(_)
CountCallsIn(nodes) ==
    IF nodes = <<>> THEN 0 ELSE CountCalls(Head(nodes)) + CountCallsIn(Tail(nodes))

CountCalls(n) == (IF n.kind = "Call" THEN 1 ELSE 0) + CountCallsIn(Parts(n))

\* The import records a node calls for: one per target of a plain import,
\* one per from-import.
RECURSIVE CountImports(_), CountImportsIn(_)
CountImportsIn(nodes) ==
    IF nodes = <<>> THEN 0 ELSE CountImports(Head(nodes)) + CountImportsIn(Tail(nodes))

CountImports(n) ==
    (CASE n.kind = "Import" -> Len(n.names)
       [] n.kind = "ImportFrom" -> 1
       [] OTHER -> 0)
    + CountImportsIn(Parts(n))

\* The record of the call the loop of extract_calls has just been through.
AtCall == pc = "calls" /\ node.kind = "Call"
LastCall == calls[Len(calls)]

Succeeded == pc = "done" /\ result.success

\* C1: every text the front-end parses ends in a success envelope whose
\* source_code is the text, unchanged.
C1_ValidInputSucceeds ==
    (pc = "done" /\ ~ast_parse(doc).raised)
        => (result.success /\ result.source_code = doc.source_code)

\* C2: the result has one of two shapes, the success shape with every field
\* and no error, or the failure shape with the error and nothing else; every
\* exception the front-end or an extractor raises is caught, also after
\* records were collected.
C2_AllOrNothing ==
    /\ pc = "done" =>
          \/ /\ result.success
             /\ DOMAIN result = {"language", "imports", "calls", "source_code",
                                 "success", "error"}
             /\ result.error = PyNone
             /\ exc = NoException
          \/ /\ ~result.success
             /\ DOMAIN result = {"success", "error"}
             /\ result.error # PyNone
             /\ exc # NoException
    /\ pc = "except" => ENABLED (ExceptSyntaxError \/ ExceptException)
    /\ pc \in {"start", "imports", "calls", "except", "done"}

\* C2's case: an exception raised after a call record and an import record
\* were collected ended in the failure shape.
C2_Witness ==
    /\ pc = "done"
    /\ ~result.success
    /\ calls # <<>>
    /\ imports # <<>>
    /\ exc.cls = "TypeError"

DistinctNames(keywords) ==
    \A i, j \in 1..Len(keywords) : i # j => keywords[i].arg # keywords[j].arg

C4_NoOverwrite ==
    (AtCall /\ DistinctNames(node.keywords)) =>
        /\ Len(LastCall.arguments) = Len(node.args) + Len(node.keywords)
        /\ \A i \in 1..Len(node.args) :
              /\ HasKey(LastCall.arguments, PyStr("arg_" \o ToString(i - 1)))
              /\ DictGet(LastCall.arguments, PyStr("arg_" \o ToString(i - 1)))
                    = extract_value(node.args[i]).val

\* The argument expressions of a call.
Operands(call) ==
    {call.args[i] : i \in 1..Len(call.args)}
    \cup {call.keywords[i].value : i \in 1..Len(call.keywords)}

\* Node classes the rules 1 to 7 of the normalizer do not cover.
Uncovered(n) ==
    n.kind \notin {"Constant", "Str", "Num", "NameConstant", "Name", "List", "Dict"}

\* C5: extract_value raises on no node, and gives unknown / None for every
\* shape outside its rules.
C5_Total ==
    (pc \in {"calls", "except"} /\ node.kind = "Call") =>
        \A a \in Operands(node) :
            /\ ~extract_value(a).raised
            /\ Uncovered(a) => extract_value(a).val = TypedValue("unknown", PyNone)

IsBoolLiteral(n) == n.kind \in {"Constant", "NameConstant"} /\ n.value.py = "bool"

\* A non-boolean numeric literal of one of the given classes.
IsNumericLiteral(n, classes) ==
    \/ n.kind = "Constant" /\ n.value.py \in classes
    \/ n.kind = "Num" /\ n.n.py \in classes

\* The key a mapping entry is stored under.
KeyOf(k) == extract_value(k).val.value

\* The rule on a node and what it was normalized to, through list elements
\* and through the mapping values that were not overwritten.
RECURSIVE BoolRule(_, _, _)
BoolRule(n, tv, classes) ==
    IF IsBoolLiteral(n)
    THEN tv.type = "bool" /\ tv.value \in {PyBool(TRUE), PyBool(FALSE)} /\ tv.value = n.value
    ELSE IF IsNumericLiteral(n, classes)
    THEN tv.type = "number"
    ELSE IF n.kind = "List"
    THEN /\ tv.type = "list"
         /\ Len(tv.value.items) = Len(n.elts)
         /\ \A i \in 1..Len(n.elts) : BoolRule(n.elts[i], tv.value.items[i], classes)
    ELSE IF n.kind = "Dict"
    THEN /\ tv.type = "dict"
         /\ \A i \in 1..Len(n.values) :
               (\A j \in (i + 1)..Len(n.values) : ~PyEq(KeyOf(n.keys[j]), KeyOf(n.keys[i])))
                  => /\ HasKey(tv.value.entries, KeyOf(n.keys[i]))
                     /\ BoolRule(n.values[i], DictGet(tv.value.entries, KeyOf(n.keys[i])),
                                 classes)
    ELSE TRUE

BoolRuleHolds(classes) ==
    (pc \in {"calls", "except"} /\ node.kind = "Call") =>
        \A a \in Operands(node) :
            ~extract_value(a).raised => BoolRule(a, extract_value(a).val, classes)

RECURSIVE ChainRoot(_)
ChainRoot(n) == IF n.kind = "Attribute" THEN ChainRoot(n.value) ELSE n

RECURSIVE ChainNames(_)
ChainNames(n) ==
    IF n.kind = "Attribute" THEN Append(ChainNames(n.value), n.attr)
    ELSE IF n.kind = "Name" THEN <<n.id>>
    ELSE <<>>

RECURSIVE Dotted(_)
Dotted(names) ==
    IF Len(names) = 1 THEN names[1]
    ELSE Dotted(SubSeq(names, 1, Len(names) - 1)) \o "." \o names[Len(names)]

\* C7: function is the identifier of a bare callee and the last name of an
\* attribute callee; module is the dotted names before the last one when the
\* chain hangs on an identifier, and absent otherwise; a callee of another
\* shape gets a record with neither.
C7_CalleeResolution ==
    AtCall =>
        /\ LastCall.lineno = node.lineno
        /\ LastCall.col_offset = node.col_offset
        /\ node.func.kind = "Name" =>
              LastCall.function = PyStr(node.func.id) /\ LastCall.module = PyNone
        /\ node.func.kind = "Attribute" =>
              /\ LastCall.function = PyStr(node.func.attr)
              /\ LastCall.module =
                    IF ChainRoot(node.func).kind = "Name"
                    THEN LET names == ChainNames(node.func)
                         IN  PyStr(Dotted(SubSeq(names, 1, Len(names) - 1)))
                    ELSE PyNone
        /\ node.func.kind \notin {"Name", "Attribute"} =>
              LastCall.function = PyNone /\ LastCall.module = PyNone
        /\ LastCall.function = PyNone => node.func.kind \notin {"Name", "Attribute"}

\* C7's case: the record of a call through a three-name chain.
C7_Witness ==
    /\ AtCall
    /\ node.func.kind = "Attribute"
    /\ LastCall.module = PyStr("a.b.c")
    /\ LastCall.function = PyStr("b")

\* C8: a successful result has exactly one call record per call expression
\* of the tree.
C8_OneRecordPerCall ==
    Succeeded => Len(result.calls) = CountCalls(tree)

\* C8's case: f(g(1)) gave two records, f's and g's.
C8_Witness ==
    /\ Succeeded
    /\ doc.source_code = <<"f", "(", "g", "(", "1", ")", ")", "\n">>
    /\ Len(result.calls) = 2
    /\ result.calls[1].function = PyStr("f")
    /\ result.calls[2].function = PyStr("g")

\* C9: a plain import appends one record per target, with the target as
\* module and only name, its alias or "", and the statement's line; a
\* from-import appends one record with the module or "", the names in order,
\* alias "" and the statement's line; nothing else appends a record.
AliasOf(a) == IF a.asname = PyNone THEN "" ELSE a.asname.v

C9_ImportRecords ==
    /\ (pc = "imports" /\ node.kind = "Import") =>
          LET n == Len(node.names)
          IN  /\ Len(imports) >= n
              /\ \A i \in 1..n :
                    imports[Len(imports) - n + i] =
                        [module |-> node.names[i].name, names |-> <<node.names[i].name>>,
                         alias |-> AliasOf(node.names[i]), lineno |-> node.lineno]
    /\ (pc = "imports" /\ node.kind = "ImportFrom") =>
          /\ imports # <<>>
          /\ imports[Len(imports)] =
                [module |-> IF node.module = PyNone THEN "" ELSE node.module.v,
                 names |-> [i \in 1..Len(node.names) |-> node.names[i].name],
                 alias |-> "", lineno |-> node.lineno]
    /\ (pc = "imports" /\ todo = <<>>) => Len(imports) = CountImports(tree)
    /\ Succeeded => result.imports = imports /\ Len(imports) = CountImports(tree)

\* C9's case: a from-import of two names, one of them aliased, got its one
\* record.
C9_Witness ==
    /\ pc = "imports"
    /\ node.kind = "ImportFrom"
    /\ Len(node.names) = 2
    /\ node.names[1].asname # PyNone
    /\ imports[Len(imports)].names = <<"upload", "download">>
    /\ imports[Len(imports)].alias = ""

\* The places of a tree: the child numbers leading to each node.
RECURSIVE Paths(_)
Paths(n) ==
    {<<>>} \cup UNION {{<<i>> \o p : p \in Paths(Children(n)[i])} :
                        i \in 1..Len(Children(n))}

RECURSIVE NodeAt(_, _)
NodeAt(n, p) == IF p = <<>> THEN n ELSE NodeAt(Children(n)[Head(p)], Tail(p))

\* p comes before q among places of the same depth.
RECURSIVE Left(_, _)
Left(p, q) ==
    /\ p # <<>>
    /\ \/ Head(p) < Head(q)
       \/ Head(p) = Head(q) /\ Left(Tail(p), Tail(q))

\* Shallower first, and left to right within a depth.
Before(p, q) == Len(p) < Len(q) \/ (Len(p) = Len(q) /\ Left(p, q))

CallPlaces == {p \in Paths(tree) : NodeAt(tree, p).kind = "Call"}

ByDepth ==
    [i \in 1..Cardinality(CallPlaces) |->
        CHOOSE p \in CallPlaces : Cardinality({q \in CallPlaces : Before(q, p)}) = i - 1]

\* C10: the call records are in order of tree depth, left to right within a
\* depth, so the record of a call comes before those of the calls nested in
\* it, whatever their lines and columns.
C10_DepthOrder ==
    Succeeded =>
        /\ Len(result.calls) = Cardinality(CallPlaces)
        /\ \A i \in 1..Len(result.calls) :
              result.calls[i] = CallInfo(NodeAt(tree, ByDepth[i]), source_lines).val

\* C10's case: a call on a later line has its record before a nested call
\* of an earlier line.
C10_Witness ==
    /\ Succeeded
    /\ \E i, j \in 1..Len(result.calls) :
          /\ i < j
          /\ result.calls[i].lineno > result.calls[j].lineno

====
